---- MODULE Spec2Model ----
(***************************************************************************)
(* NGC Assignment Tracker (src/app.py): the Streamlit script as a state    *)
(* machine.  The session state (assignments, assignment_counter), the      *)
(* widget state (page, filters, uploaded file, the pressed button or       *)
(* submitted form) and the position of the running script (pc) are the     *)
(* variables.  Every user interaction starts a script run; a run executes  *)
(* the export block, the import block and the page routing in this order,  *)
(* and st.rerun() restarts the run.  The export block changes no state:    *)
(* the file it offers is among the files the user may upload.              *)
(***************************************************************************)
EXTENDS Integers, Sequences, FiniteSets, TLC

(***************************************************************************)
(* Bounds of the model.                                                    *)
(***************************************************************************)
MaxId == 2          \* creates are submitted while the counter is at most this
MaxUpdates == 1     \* update forms submitted in a session

(***************************************************************************)
(* Python values.  Every value carries its type, as in Python: the store   *)
(* may hold whatever json.load returned.  An int is in n, a str in s, the  *)
(* elements of a list in v; a dict is the sequence v of its items in       *)
(* insertion order.                                                        *)
(***************************************************************************)
\* F(v), with v evaluated once
With(v, F(_)) == CHOOSE y \in { F(d) : d \in {v} } : TRUE

\* the sequence [i \in 1..n |-> e], with its elements evaluated once
AsTuple(f) == f \o << >>

PyNone == [ty |-> "NoneType", n |-> 0, s |-> "", v |-> << >>]
PyInt(n) == [ty |-> "int", n |-> n, s |-> "", v |-> << >>]
PyStr(s) == [ty |-> "str", n |-> 0, s |-> s, v |-> << >>]
PyList(items) == [ty |-> "list", n |-> 0, s |-> "", v |-> items]
PyDict(items) == [ty |-> "dict", n |-> 0, s |-> "", v |-> items]
PyNaN == [ty |-> "float", n |-> 0, s |-> "nan", v |-> << >>]
Item(k, val) == [k |-> k, val |-> val]

\* bool(x): the truth value Python gives a value in `if x` / `not x`
Truthy(x) ==
    CASE x.ty = "NoneType" -> FALSE
      [] x.ty = "int" -> x.n # 0
      [] x.ty = "str" -> x.s # ""
      [] x.ty = "float" -> TRUE
      [] OTHER -> Len(x.v) > 0

\* key in d
HasKey(d, key) == \E i \in 1..Len(d.v) : d.v[i].k = key

\* d[key], for a dict d that has the key
Get(d, key) == d.v[CHOOSE i \in 1..Len(d.v) : d.v[i].k = key].val

\* d[key] = val: replaces the value in place, or adds the item at the end
SetItem(d, key, val) ==
    With(d, LAMBDA e :
        IF HasKey(e, key)
        THEN PyDict(AsTuple([i \in 1..Len(e.v) |->
                        IF e.v[i].k = key THEN Item(key, val) ELSE e.v[i]]))
        ELSE PyDict(Append(e.v, Item(key, val))))

(***************************************************************************)
(* JSON text, as the tree of its tokens: numbers (n), strings (s), null,   *)
(* arrays of elements (c) and objects of members (c, in the order          *)
(* written).  "garbage" is a file that is no JSON text.                    *)
(***************************************************************************)
JNull == [t |-> "null", n |-> 0, s |-> "", c |-> << >>]
JNum(n) == [t |-> "number", n |-> n, s |-> "", c |-> << >>]
JString(s) == [t |-> "string", n |-> 0, s |-> s, c |-> << >>]
JArray(elems) == [t |-> "array", n |-> 0, s |-> "", c |-> elems]
JObject(members) == [t |-> "object", n |-> 0, s |-> "", c |-> members]
JGarbage == [t |-> "garbage", n |-> 0, s |-> "", c |-> << >>]
Member(name, value) == [name |-> name, value |-> value]

RECURSIVE json_dumps(_)
\* json.dumps(obj): list -> array, dict -> object, str -> string,
\* int -> number, None -> null
json_dumps(x) ==
    CASE x.ty = "NoneType" -> JNull
      [] x.ty = "int" -> JNum(x.n)
      [] x.ty = "str" -> JString(x.s)
      [] x.ty = "list" -> JArray(AsTuple([i \in 1..Len(x.v) |-> json_dumps(x.v[i])]))
      [] OTHER ->
            JObject(AsTuple([i \in 1..Len(x.v) |->
                        Member(x.v[i].k, json_dumps(x.v[i].val))]))

RECURSIVE json_loads(_)
\* json.load(fp) on a JSON text: array -> list, object -> dict,
\* string -> str, number -> int, null -> None
json_loads(j) ==
    CASE j.t = "null" -> PyNone
      [] j.t = "number" -> PyInt(j.n)
      [] j.t = "string" -> PyStr(j.s)
      [] j.t = "array" -> PyList(AsTuple([i \in 1..Len(j.c) |-> json_loads(j.c[i])]))
      [] OTHER ->
            PyDict(AsTuple([i \in 1..Len(j.c) |->
                       Item(j.c[i].name, json_loads(j.c[i].value))]))

(***************************************************************************)
(* The fixed enumerations of the program.                                  *)
(***************************************************************************)
CHIEF_ENGINEERS ==
    << "Chief Engineer (Substation Design)",
       "Chief Engineer (Transmission Line Design)",
       "Chief Engineer (Telecom)",
       "Chief Engineer (Scada-III)",
       "Chief Engineer (Protection & Control)",
       "Chief Engineer (Standards & Specification)" >>

PRIORITY_LEVELS == << "Low", "Medium", "High", "Critical" >>

STATUS_OPTIONS ==
    << "Not Started", "In Progress", "Under Review", "Completed", "On Hold" >>

Range(s) == { s[i] : i \in 1..Len(s) }

(***************************************************************************)
(* Time.  The sessions of the model take place within one minute of the    *)
(* clock: datetime.now() is the same instant wherever it is read, and      *)
(* strftime('%Y-%m-%d %H:%M') and isoformat() write it as text.            *)
(***************************************************************************)
now == [date |-> "2025-01-01", hour |-> "09", minute |-> "00", second |-> "00"]

strftime(t) == t.date \o " " \o t.hour \o ":" \o t.minute

isoformat(t) == t.date \o "T" \o t.hour \o ":" \o t.minute \o ":" \o t.second

(***************************************************************************)
(* The import block, lines 464-472, as a function of the uploaded text     *)
(* and the session state: the session state it leaves, and the exception   *)
(* its try block raised ("" when none was raised).                         *)
(***************************************************************************)
\* the values `for a in x` yields: the elements of a list, the keys of a
\* dict, the characters of a str (each a str)
Iterate(x) ==
    CASE x.ty = "list" -> x.v
      [] x.ty = "dict" -> AsTuple([i \in 1..Len(x.v) |-> PyStr(x.v[i].k)])
      [] OTHER -> << PyStr(x.s) >>

\* the exception a['id'] raises, "" when it yields a value
IdLookupExc(a) ==
    IF a.ty = "dict"
    THEN IF HasKey(a, "id") THEN "" ELSE "KeyError"
    ELSE "TypeError"

\* the exception of max([a['id'] for a in x]) + 1 for a truthy x: that of
\* the first element whose lookup fails, else TypeError when an id is no
\* number
MaxIdExc(x) ==
    IF x.ty = "int" THEN "TypeError"
    ELSE With(Iterate(x), LAMBDA elems :
         With({ i \in 1..Len(elems) : IdLookupExc(elems[i]) # "" }, LAMBDA bad :
             IF bad # {}
             THEN IdLookupExc(elems[CHOOSE i \in bad : \A j \in bad : i <= j])
             ELSE IF \E i \in 1..Len(elems) : Get(elems[i], "id").ty # "int"
                  THEN "TypeError"
                  ELSE ""))

RECURSIVE PyMaxTo(_, _)
\* max of the first n of ids, scanning left to right
PyMaxTo(ids, n) ==
    IF n = 1 THEN ids[1]
    ELSE With(PyMaxTo(ids, n - 1), LAMBDA m : IF ids[n] > m THEN ids[n] ELSE m)

\* max(ids) of a non-empty list of ints
PyMax(ids) == PyMaxTo(ids, Len(ids))

\* a counter recomputed from the number of records instead of their ids
NextCounter_Count(x) == IF Truthy(x) THEN Len(x.v) + 1 ELSE 1

\* line 468: max([a['id'] for a in assignments]) + 1 if assignments else 1
NextCounter(x) ==
    IF Truthy(x)
    THEN With(AsTuple([i \in 1..Len(x.v) |-> Get(x.v[i], "id").n]), PyMax) + 1
    ELSE 1

\* an import that adds the uploaded records to the store instead of
\* replacing it
import_assignments_Extend(import_data, assignments, counter) ==
    IF import_data.ty # "dict"
    THEN [assignments |-> assignments, counter |-> counter, exc |-> "TypeError"]
    ELSE IF ~HasKey(import_data, "assignments")
    THEN [assignments |-> assignments, counter |-> counter, exc |-> "KeyError"]
    ELSE With(Get(import_data, "assignments"), LAMBDA got :
         With(IF got.ty = "list" /\ assignments.ty = "list"
              THEN PyList(assignments.v \o got.v) ELSE got, LAMBDA new :
         With(IF Truthy(new) THEN MaxIdExc(new) ELSE "", LAMBDA exc :
             IF exc # ""
             THEN [assignments |-> new, counter |-> counter, exc |-> exc]
             ELSE [assignments |-> new, counter |-> NextCounter(new),
                   exc |-> ""])))

\* lines 467-468, with the document json.load returned
import_assignments(import_data, assignments, counter) ==
    IF import_data.ty # "dict"
    THEN [assignments |-> assignments, counter |-> counter, exc |-> "TypeError"]
    ELSE IF ~HasKey(import_data, "assignments")
    THEN [assignments |-> assignments, counter |-> counter, exc |-> "KeyError"]
    ELSE With(Get(import_data, "assignments"), LAMBDA new :
         With(IF Truthy(new) THEN MaxIdExc(new) ELSE "", LAMBDA exc :
             IF exc # ""
             THEN [assignments |-> new, counter |-> counter, exc |-> exc]
             ELSE [assignments |-> new, counter |-> NextCounter(new),
                   exc |-> ""]))

import_block(text, assignments, counter) ==
    IF text.t = "garbage"
    THEN [assignments |-> assignments, counter |-> counter,
          exc |-> "JSONDecodeError"]
    ELSE With(json_loads(text), LAMBDA import_data :
              import_assignments(import_data, assignments, counter))

(***************************************************************************)
(* create_assignment, lines 130-154: the record built from the form, and   *)
(* the forms a user may submit.                                            *)
(***************************************************************************)
new_assignment(counter, form, t) ==
    PyDict(<< Item("id", PyInt(counter)),
              Item("title", PyStr(form.title)),
              Item("assigned_to", PyStr(form.assigned_to)),
              Item("priority", PyStr(form.priority)),
              Item("status", PyStr(form.status)),
              Item("category", PyStr(form.category)),
              Item("description", PyStr(form.description)),
              Item("deliverables", PyStr(form.deliverables)),
              Item("due_date", PyStr(form.due_date)),
              Item("created_date", PyStr(strftime(t))),
              Item("estimated_hours", PyInt(form.estimated_hours)),
              Item("actual_hours", PyInt(0)),
              Item("progress_percentage", PyInt(0)),
              Item("comments", PyList(<< >>)) >>)

\* a validation that forgets the description
FormValid_NoDescription(form) == form.title # "" /\ form.assigned_to # ""

\* line 131: if title and assigned_to and description
FormValid(form) == form.title # "" /\ form.assigned_to # "" /\ form.description # ""

CreateForms ==
    { [title |-> ti, assigned_to |-> who[1], priority |-> who[2],
       status |-> STATUS_OPTIONS[1], category |-> "Design Review",
       description |-> de, deliverables |-> "", due_date |-> "2025-01-31",
       estimated_hours |-> 8] :
      ti \in {"", "Review Spec"}, de \in {"", "x"},
      who \in { << CHIEF_ENGINEERS[3], PRIORITY_LEVELS[3] >> } }

(***************************************************************************)
(* The files a user may upload.                                            *)
(***************************************************************************)
JAssignment(id, who, priority, status, progress, comments) ==
    JObject(<< Member("id", JNum(id)),
               Member("title", JString("Imported")),
               Member("assigned_to", JString(who)),
               Member("priority", JString(priority)),
               Member("status", JString(status)),
               Member("category", JString("Other")),
               Member("description", JString("d")),
               Member("deliverables", JString("")),
               Member("due_date", JString("2025-01-31")),
               Member("created_date", JString("2024-12-31 08:00")),
               Member("estimated_hours", JNum(8)),
               Member("actual_hours", JNum(2)),
               Member("progress_percentage", JNum(progress)),
               Member("comments", JArray(comments)) >>)

\* the object without one of its members
Without(j, name) == JObject(SelectSeq(j.c, LAMBDA m : m.name # name))

JDocument(records) ==
    JObject(<< Member("assignments", records),
               Member("export_date", JString("2024-12-31T08:00")) >>)

\* two well-formed records, the greater id first, the second written
\* without its comments
ValidDoc ==
    JDocument(JArray(<<
        JAssignment(3, CHIEF_ENGINEERS[3], "Medium", "Completed", 100,
            << JObject(<< Member("date", JString("2024-12-31 08:30")),
                          Member("comment", JString("checked")) >>) >>),
        Without(JAssignment(1, CHIEF_ENGINEERS[3], "High", "In Progress",
                            50, << >>), "comments") >>))

\* two records with the same id
DupDoc ==
    JDocument(JArray(<<
        JAssignment(1, CHIEF_ENGINEERS[3], "High", "Not Started", 0, << >>),
        JAssignment(1, CHIEF_ENGINEERS[1], "Medium", "Completed", 90, << >>) >>))

\* the second record has no id
NoIdDoc ==
    JDocument(JArray(<<
        JAssignment(1, CHIEF_ENGINEERS[3], "High", "In Progress", 50, << >>),
        Without(JAssignment(2, CHIEF_ENGINEERS[1], "Medium", "Not Started",
                            0, << >>), "id") >>))

\* values outside the enumerations and the progress range
InvalidDoc ==
    JDocument(JArray(<<
        JAssignment(1, "Intern", "Urgent", "Bogus", 150, << >>) >>))

Docs ==
    { JGarbage,
      JObject(<< Member("export_date", JString("2024-12-31T08:00")) >>),
      JDocument(JNull),
      JDocument(JString("x")),
      JDocument(JArray(<< >>)),
      ValidDoc, DupDoc, NoIdDoc, InvalidDoc }

(***************************************************************************)
(* manage_assignments, lines 246-326.                                      *)
(***************************************************************************)
Keys(d) == AsTuple([i \in 1..Len(d.v) |-> d.v[i].k])

RECURSIVE ColumnsTo(_, _)
\* the keys of the first n records, in the order of their first appearance
ColumnsTo(records, n) ==
    IF n = 0 THEN << >>
    ELSE With(ColumnsTo(records, n - 1), LAMBDA before :
              before \o SelectSeq(Keys(records[n]),
                                  LAMBDA k : k \notin Range(before)))

\* the columns pd.DataFrame gives a list of dicts
Columns(records) == ColumnsTo(records, Len(records))

\* a row of the frame: the record's value in every column, NaN where the
\* record has no such key
Row(a, columns) ==
    IF Keys(a) = columns THEN a
    ELSE PyDict(AsTuple([j \in 1..Len(columns) |->
                    With(columns[j], LAMBDA c :
                         Item(c, IF HasKey(a, c) THEN Get(a, c) ELSE PyNaN))]))

\* the exception of pd.DataFrame(x) for a truthy x, "" when it builds a frame
DataFrameExc(x) ==
    IF x.ty # "list" THEN "ValueError"
    ELSE IF \E i \in 1..Len(x.v) : x.v[i].ty # "dict" THEN "TypeError"
    ELSE ""

\* line 264: the frame, each row under its index label
DataFrame(x) ==
    With(Columns(x.v), LAMBDA columns :
        AsTuple([i \in 1..Len(x.v) |->
                    [index |-> i - 1, row |-> Row(x.v[i], columns)]]))

\* df[df[column] == choice]
Select(df, column, choice) ==
    SelectSeq(df, LAMBDA r : Get(r.row, column) = PyStr(choice))

\* lines 266-271: one filter after the other, each skipped when "All"
FilterExc(x, filters) ==
    With(Range(Columns(x.v)), LAMBDA columns :
        IF \/ filters.engineer # "All" /\ "assigned_to" \notin columns
           \/ filters.status # "All" /\ "status" \notin columns
           \/ filters.priority # "All" /\ "priority" \notin columns
        THEN "KeyError" ELSE "")

FilterBy(df, column, choice) ==
    IF choice # "All" THEN Select(df, column, choice) ELSE df

\* a listing that forgets the status filter
Filtered_NoStatus(x, filters) ==
    With(DataFrame(x), LAMBDA df0 :
    With(FilterBy(df0, "assigned_to", filters.engineer), LAMBDA df1 :
         FilterBy(df1, "priority", filters.priority)))

Filtered(x, filters) ==
    With(DataFrame(x), LAMBDA df0 :
    With(FilterBy(df0, "assigned_to", filters.engineer), LAMBDA df1 :
    With(FilterBy(df1, "status", filters.status), LAMBDA df2 :
         FilterBy(df2, "priority", filters.priority))))

RowColumns ==
    { "id", "title", "status", "assigned_to", "description", "deliverables",
      "priority", "due_date", "category", "progress_percentage",
      "actual_hours" }

\* a column holds ints only when every record has an int there; a missing
\* value turns the whole column into floats
IntColumn(x, column) ==
    \A i \in 1..Len(x.v) :
        HasKey(x.v[i], column) /\ Get(x.v[i], column).ty = "int"

\* lines 275-306: the exception raised while row k of df is rendered
RowExc(x, df, k) ==
    With(df[k].row, LAMBDA row :
    IF ~(RowColumns \subseteq Range(Keys(row))) THEN "KeyError"
    ELSE IF \E j \in 1..(k - 1) : Get(df[j].row, "id") = Get(row, "id")
    THEN "StreamlitAPIException"
    ELSE IF ~(/\ Get(row, "status").ty = "str"
              /\ Get(row, "status").s \in Range(STATUS_OPTIONS))
    THEN "ValueError"
    ELSE IF ~(/\ IntColumn(x, "progress_percentage")
              /\ Get(row, "progress_percentage").n \in 0..100)
    THEN "StreamlitAPIException"
    ELSE IF ~(/\ IntColumn(x, "actual_hours")
              /\ Get(row, "actual_hours").n >= 0)
    THEN "StreamlitAPIException"
    ELSE "")

\* lines 312-314: the three assignments into the record
SetFields(a, form) ==
    SetItem(SetItem(SetItem(a,
        "status", PyStr(form.status)),
        "progress_percentage", PyInt(form.progress)),
        "actual_hours", PyInt(form.hours))

\* lines 316-322: the comment, when one was written
AddComment(a1, form, t) ==
    IF form.comment = "" THEN [a |-> a1, exc |-> ""]
    ELSE With(IF HasKey(a1, "comments") THEN a1
              ELSE SetItem(a1, "comments", PyList(<< >>)), LAMBDA a2 :
         IF Get(a2, "comments").ty # "list"
         THEN [a |-> a2, exc |-> "AttributeError"]
         ELSE [a |-> SetItem(a2, "comments",
                       PyList(Append(Get(a2, "comments").v,
                           PyDict(<< Item("date", PyStr(strftime(t))),
                                     Item("comment", PyStr(form.comment)) >>)))),
               exc |-> ""])

\* a loop that forgets to compare the ids and stops at the first record
Matching_First(x, key) == IF Len(x.v) = 0 THEN 0 ELSE 1

\* the record the loop of line 310 stops at: the first that has no id
\* (KeyError) or has the id of the form; 0 when the loop runs out
Matching(x, key) ==
    With({ i \in 1..Len(x.v) :
             ~HasKey(x.v[i], "id") \/ Get(x.v[i], "id") = key }, LAMBDA hits :
         IF hits = {} THEN 0 ELSE CHOOSE h \in hits : \A g \in hits : h <= g)

\* lines 310-323: the store after the handler of the form with this key,
\* and the exception the handler raised
update_handler(x, key, form, t) ==
    With(Matching(x, key), LAMBDA i :
        IF i = 0 THEN [assignments |-> x, exc |-> ""]
        ELSE IF ~HasKey(x.v[i], "id")
        THEN [assignments |-> x, exc |-> "KeyError"]
        ELSE With(AddComment(SetFields(x.v[i], form), form, t), LAMBDA r :
                  [assignments |-> PyList([x.v EXCEPT ![i] = r.a]),
                   exc |-> r.exc]))

\* what a page function shows: its message, the index labels of the rows
\* of df, and how many of their update forms were rendered
View(p, msg, df, forms) ==
    [page |-> p, msg |-> msg, df |-> AsTuple([k \in 1..Len(df) |-> df[k].index]),
     forms |-> forms]

\* line 274: the row at which the loop over the rows ends: the first whose
\* rendering raises or whose form was submitted; 0 when all rows are shown
Stops(df, excs, trigger) ==
    With({ k \in 1..Len(df) :
             \/ excs[k] # ""
             \/ /\ trigger.kind = "update"
                /\ trigger.key = Get(df[k].row, "id") }, LAMBDA stops :
         IF stops = {} THEN 0 ELSE CHOOSE s \in stops : \A g \in stops : s <= g)

\* the whole page: the store it leaves, what it shows, whether it ended
\* in st.rerun()
manage_assignments(x, filters, trigger, t) ==
    LET p == "Manage Assignments" IN
    IF ~Truthy(x)
    THEN [assignments |-> x, view |-> View(p, "info", << >>, 0), rerun |-> FALSE]
    ELSE IF DataFrameExc(x) # "" \/ FilterExc(x, filters) # ""
    THEN [assignments |-> x, view |-> View(p, "exception", << >>, 0),
          rerun |-> FALSE]
    ELSE
    With(Filtered(x, filters), LAMBDA df :
    With(AsTuple([k \in 1..Len(df) |-> RowExc(x, df, k)]), LAMBDA excs :
    With(Stops(df, excs, trigger), LAMBDA k :
        IF k = 0
        THEN [assignments |-> x, view |-> View(p, "", df, Len(df)),
              rerun |-> FALSE]
        ELSE IF excs[k] # ""
        THEN [assignments |-> x, view |-> View(p, "row exception", df, k - 1),
              rerun |-> FALSE]
        ELSE With(update_handler(x, Get(df[k].row, "id"), trigger, t),
                  LAMBDA done :
                  [assignments |-> done.assignments,
                   view |-> View(p, IF done.exc # "" THEN "exception"
                                    ELSE "success", df, k),
                   rerun |-> done.exc = ""]))))

(***************************************************************************)
(* The pages, lines 474-484: the session state a page function leaves,     *)
(* what it puts on the screen, the filters its widgets keep, and whether   *)
(* it ended in st.rerun().                                                 *)
(***************************************************************************)
NoFilters == [engineer |-> "All", status |-> "All", priority |-> "All"]
NoTrigger == [kind |-> "none"]

Page(x, counter, v, f, rerun) ==
    [assignments |-> x, counter |-> counter, view |-> v, filters |-> f,
     rerun |-> rerun]

\* a create that forgets to advance the counter
create_assignment_NoIncrement(x, counter, pressed, t) ==
    LET p == "Create Assignment" IN
    IF pressed.kind # "create"
    THEN Page(x, counter, View(p, "", << >>, 0), NoFilters, FALSE)
    ELSE IF ~FormValid(pressed.form)
    THEN Page(x, counter, View(p, "error", << >>, 0), NoFilters, FALSE)
    ELSE IF x.ty # "list"
    THEN Page(x, counter, View(p, "exception", << >>, 0), NoFilters, FALSE)
    ELSE Page(PyList(Append(x.v, new_assignment(counter, pressed.form, t))),
              counter, View(p, "success", << >>, 0), NoFilters, TRUE)

\* lines 99-154
create_assignment(x, counter, pressed, t) ==
    LET p == "Create Assignment" IN
    IF pressed.kind # "create"
    THEN Page(x, counter, View(p, "", << >>, 0), NoFilters, FALSE)
    ELSE IF ~FormValid(pressed.form)
    THEN Page(x, counter, View(p, "error", << >>, 0), NoFilters, FALSE)
    ELSE IF x.ty # "list"
    THEN Page(x, counter, View(p, "exception", << >>, 0), NoFilters, FALSE)
    ELSE Page(PyList(Append(x.v, new_assignment(counter, pressed.form, t))),
              counter + 1, View(p, "success", << >>, 0), NoFilters, TRUE)

\* lines 246-326
manage_page(x, counter, f, pressed, t) ==
    With(manage_assignments(x, f, pressed, t), LAMBDA r :
         Page(r.assignments, counter, r.view,
              IF r.view.msg = "info" THEN NoFilters ELSE f, r.rerun))

\* lines 156-164, 328-335: the pages that only read the store
read_only_page(p, x, counter) ==
    Page(x, counter,
         View(p, IF ~Truthy(x) THEN "info"
                 ELSE IF DataFrameExc(x) # "" THEN "exception" ELSE "",
              << >>, 0),
         NoFilters, FALSE)

Route(p, x, counter, f, pressed, t) ==
    CASE p = "Create Assignment" -> create_assignment(x, counter, pressed, t)
      [] p = "Manage Assignments" -> manage_page(x, counter, f, pressed, t)
      [] OTHER -> read_only_page(p, x, counter)

(***************************************************************************)
(* The export block, lines 448-461: the data of the download button, when  *)
(* the button is shown.                                                    *)
(***************************************************************************)
export_data(x, t) ==
    PyDict(<< Item("assignments", x), Item("export_date", PyStr(isoformat(t))) >>)

export_block(x, t) ==
    IF Truthy(x)
    THEN [shown |-> TRUE, data |-> json_dumps(export_data(x, t))]
    ELSE [shown |-> FALSE, data |-> JNull]

(***************************************************************************)
(* The state of a session.                                                 *)
(***************************************************************************)
VARIABLES
    assignments,         \* st.session_state.assignments
    assignment_counter,  \* st.session_state.assignment_counter
    page,                \* the sidebar's page selectbox
    filters,             \* the three filter selectboxes of the manage page
    uploaded_file,       \* the file uploader: None, or the text of the file
    pc,                  \* "rerun": a run of the script is due;
                         \* "idle": the last run has ended
    view,                \* what the last page function put on the screen
    pressed,             \* the submit button the last page function found
                         \* pressed, with the values of its form
    sidebar,             \* the sidebar message of the import block
    issued,              \* the greatest id a create has assigned so far
    updates,             \* the update forms submitted so far
    restarts             \* the runs in a row that the import block has
                         \* ended in st.rerun(), modulo 2

vars ==
    << assignments, assignment_counter, page, filters, uploaded_file, pc,
       view, pressed, sidebar, issued, updates, restarts >>

Pages ==
    { "Dashboard", "Create Assignment", "Manage Assignments",
      "Reports & Analytics", "Engineer Workload" }

\* the pages the user of the model visits; "Reports & Analytics" and
\* "Engineer Workload" only read the store, as "Dashboard" does
PageChoices == { "Dashboard", "Create Assignment", "Manage Assignments" }

NoFile == [kind |-> "None", text |-> JNull]
UploadedFile(text) == [kind |-> "UploadedFile", text |-> text]

\* lines 17-22, and the widgets' defaults; the first run is due
Init ==
    /\ assignments = PyList(<< >>)
    /\ assignment_counter = 1
    /\ page = "Dashboard"
    /\ filters = NoFilters
    /\ uploaded_file = NoFile
    /\ pc = "rerun"
    /\ view = View("", "", << >>, 0)
    /\ pressed = NoTrigger
    /\ sidebar = ""
    /\ issued = 0
    /\ updates = 0
    /\ restarts = 0

(***************************************************************************)
(* One run of the script with the widget values given: the import block,   *)
(* lines 463-472, then page routing unless the import block ended the run  *)
(* in st.rerun().                                                          *)
(***************************************************************************)
\* the session state at line 474, and the exception of the import block
AtRouting(file) ==
    IF file = NoFile
    THEN [assignments |-> assignments, counter |-> assignment_counter, exc |-> ""]
    ELSE import_block(file.text, assignments, assignment_counter)

Run(file, p, f, submitted) ==
    \E top \in {AtRouting(file)} :
        IF file # NoFile /\ top.exc = ""
        THEN /\ assignments' = top.assignments
             /\ assignment_counter' = top.counter
             /\ sidebar' = "Data imported successfully!"
             /\ pc' = "rerun"
             /\ filters' = f
             /\ pressed' = NoTrigger
             /\ restarts' = (restarts + 1) % 2
             /\ UNCHANGED << view, issued >>
        ELSE \E r \in {Route(p, top.assignments, top.counter, f, submitted, now)} :
             /\ assignments' = r.assignments
             /\ assignment_counter' = r.counter
             /\ sidebar' = IF file = NoFile THEN "" ELSE "Import failed"
             /\ pc' = IF r.rerun THEN "rerun" ELSE "idle"
             /\ filters' = r.filters
             /\ view' = r.view
             /\ pressed' = submitted
             /\ restarts' = 0
             /\ issued' = IF r.counter > top.counter /\ top.counter > issued
                          THEN top.counter ELSE issued

\* st.rerun(), and the first run of the session
Rerun ==
    /\ pc = "rerun"
    /\ Run(uploaded_file, page, filters, NoTrigger)
    /\ UNCHANGED << page, uploaded_file, updates >>

(***************************************************************************)
(* The user.  An interaction sets the widget it touches and runs the       *)
(* script from the top.  The user acts when the last run has ended; the    *)
(* file uploader is also used while reruns are due.                        *)
(***************************************************************************)
SelectPage ==
    /\ pc = "idle"
    /\ \E p \in PageChoices \ {page} :
           /\ page' = p
           /\ Run(uploaded_file, p, filters, NoTrigger)
    /\ UNCHANGED << uploaded_file, updates >>

FilterChoices(f) ==
    ({ [f EXCEPT !.engineer = e] : e \in {"All", CHIEF_ENGINEERS[3]} }
     \cup { [f EXCEPT !.status = s] : s \in {"All", STATUS_OPTIONS[4]} }
     \cup { [f EXCEPT !.priority = q] : q \in {"All", PRIORITY_LEVELS[3]} })
    \ {f}

\* the filter widgets are on the screen when the manage page got past
\* line 251
SelectFilter ==
    /\ pc = "idle"
    /\ view.page = "Manage Assignments" /\ view.msg # "info"
    /\ \E f \in FilterChoices(filters) :
           Run(uploaded_file, page, f, NoTrigger)
    /\ UNCHANGED << page, uploaded_file, updates >>

\* the user picks a file when the uploader holds none (to pick another the
\* user removes the one it holds): one of Docs, or the file the Export Data
\* button gives for the store as it is
UploadFile ==
    /\ uploaded_file = NoFile
    /\ \E text \in Docs \cup { e.data : e \in { b \in {export_block(assignments, now)} : b.shown } } :
           /\ uploaded_file' = UploadedFile(text)
           /\ uploaded_file' # uploaded_file
           /\ Run(UploadedFile(text), page, filters, NoTrigger)
    /\ UNCHANGED << page, updates >>

RemoveFile ==
    /\ uploaded_file # NoFile
    /\ uploaded_file' = NoFile
    /\ Run(NoFile, page, filters, NoTrigger)
    /\ UNCHANGED << page, updates >>

SubmitCreate ==
    /\ pc = "idle"
    /\ view.page = "Create Assignment"
    /\ \E form \in CreateForms :
           /\ FormValid(form) => assignment_counter <= MaxId
           /\ Run(uploaded_file, page, filters, [kind |-> "create", form |-> form])
    /\ UNCHANGED << page, uploaded_file, updates >>

\* the values a user may leave in the update form of a row: those the
\* form shows, with a new progress, a new comment, or everything new
UpdateForms(row) ==
    { [kind |-> "update", key |-> Get(row, "id"), shown |-> shown,
       status |-> e[1], progress |-> e[2], hours |-> e[3], comment |-> e[4]] :
      shown \in { [status |-> Get(row, "status").s,
                   progress |-> Get(row, "progress_percentage").n,
                   hours |-> Get(row, "actual_hours").n] },
      e \in { << Get(row, "status").s, 100, Get(row, "actual_hours").n, "" >>,
              << Get(row, "status").s, Get(row, "progress_percentage").n,
                 Get(row, "actual_hours").n, "done" >>,
              << STATUS_OPTIONS[4], 100, 8, "done" >> } }

\* the row the screen shows under an index label
Shown(index) == DataFrame(assignments)[index + 1].row

SubmitUpdate ==
    /\ pc = "idle"
    /\ view.page = "Manage Assignments"
    /\ updates < MaxUpdates
    /\ updates' = updates + 1
    /\ \E k \in 1..view.forms :
         \E row \in {Shown(view.df[k])} :
         \E form \in UpdateForms(row) :
            Run(uploaded_file, page, filters, form)
    /\ UNCHANGED << page, uploaded_file >>

Next ==
    \/ Rerun
    \/ SelectPage
    \/ SelectFilter
    \/ UploadFile
    \/ RemoveFile
    \/ SubmitCreate
    \/ SubmitUpdate

Spec == Init /\ [][Next]_vars

\* st.rerun() starts the next run at once and a run of the script ends; the
\* user is free never to act
LiveSpec == Spec /\ WF_vars(Rerun)

(***************************************************************************)
(* Properties of the program.  A step of the session is one run of the     *)
(* script; pressed' and view' tell which operation the run carried out     *)
(* and how it ended.                                                       *)
(***************************************************************************)
\* the records of a store (none when the store is no list)
Records(x) == IF x.ty = "list" THEN x.v ELSE << >>

\* the comments of a record, none when it has no such key
Comments(a) == IF HasKey(a, "comments") THEN Get(a, "comments").v ELSE << >>

\* the fields of a record that an update has no business with
FrameFields ==
    { "id", "title", "assigned_to", "priority", "category", "description",
      "deliverables", "due_date", "estimated_hours", "created_date" }

SameField(a, b, k) ==
    /\ HasKey(a, k) = HasKey(b, k)
    /\ HasKey(a, k) => Get(a, k) = Get(b, k)

\* the step is a run started by picking a file
Uploaded == uploaded_file' # uploaded_file /\ uploaded_file'.kind = "UploadedFile"

\* the step is a run in which a create form was submitted, and accepted
CreateSubmitted == pressed'.kind = "create"
Created == CreateSubmitted /\ view'.msg = "success"

\* the step is a run in which an update form was submitted, and applied
UpdateSubmitted == pressed'.kind = "update"
Updated == UpdateSubmitted /\ view'.msg = "success"

\* C1: import is all-or-nothing: when the import of a picked file fails,
\* the assignment list and the id counter are what they were before
C1_ImportAllOrNothing ==
    [][(Uploaded /\ sidebar' = "Import failed")
          => /\ assignments' = assignments
             /\ assignment_counter' = assignment_counter]_vars

\* C1's case: a failed import that has replaced the list of a store that
\* held a record of its own
C1_FailedImportReplacedStore ==
    /\ sidebar = "Import failed"
    /\ uploaded_file = UploadedFile(JDocument(JString("x")))
    /\ assignments = PyStr("x")
    /\ assignment_counter = 2

\* C2: in every reachable state no two records of the store have the
\* same id
C2_UniqueIds ==
    \A i, j \in 1..Len(Records(assignments)) :
        (/\ i # j
         /\ assignments.v[i].ty = "dict" /\ HasKey(assignments.v[i], "id")
         /\ assignments.v[j].ty = "dict" /\ HasKey(assignments.v[j], "id"))
        => Get(assignments.v[i], "id") # Get(assignments.v[j], "id")

\* C2's case: the store after an import and a create
C2_ImportedThenCreated ==
    /\ Len(Records(assignments)) = 3
    /\ pressed.kind = "create" /\ view.msg = "success"

\* C3: every successful create yields an id strictly greater than every
\* id an earlier create of the session assigned, and the id counter never
\* decreases
C3_IdsIncreaseAcrossSession ==
    [][/\ Created =>
            Get(assignments'.v[Len(assignments'.v)], "id").n > issued
       /\ assignment_counter' >= assignment_counter]_vars

\* C3, amended: every successful create appends a record whose id is the
\* counter and advances the counter by one, and the counter decreases only
\* in a run whose import succeeds
C3_IdsIncreaseBetweenImports ==
    [][/\ Created =>
            /\ assignments' =
                  PyList(Append(assignments.v, assignments'.v[Len(assignments'.v)]))
            /\ Get(assignments'.v[Len(assignments'.v)], "id") =
                  PyInt(assignment_counter)
            /\ assignment_counter' = assignment_counter + 1
       /\ assignment_counter' < assignment_counter =>
            sidebar' = "Data imported successfully!"]_vars

\* C3's case: a second create in a row has been accepted
C3_CreatedTwice ==
    /\ pressed.kind = "create" /\ view.msg = "success"
    /\ issued = 2
    /\ assignment_counter = 3

\* C4: importing the file the export gives for the store leaves the store
\* with the same records, fields and comments in the same order
C4_ExportImportRoundTrip ==
    [][(/\ Uploaded
        /\ export_block(assignments, now).shown
        /\ uploaded_file'.text = export_block(assignments, now).data)
          => assignments' = assignments]_vars

\* C4's case: the export of a store of two records, one of them with a
\* comment, has been imported
C4_ExportImported ==
    /\ sidebar = "Data imported successfully!"
    /\ Len(Records(assignments)) = 2
    /\ \E i \in 1..2 : assignments.v[i].ty = "dict" /\ Len(Comments(assignments.v[i])) > 0
    /\ uploaded_file = UploadedFile(export_block(assignments, now).data)

\* C5: a create submitted with an empty title or an empty description is
\* rejected, and leaves the assignment list and the id counter unchanged
C5_InvalidCreateRejected ==
    [][(/\ CreateSubmitted
        /\ pressed'.form.title = "" \/ pressed'.form.description = "")
          => /\ view'.msg = "error"
             /\ assignments' = assignments
             /\ assignment_counter' = assignment_counter]_vars

\* C5's case: a create with an empty description was rejected on a store
\* that holds a record
C5_RejectedOnStore ==
    /\ pressed.kind = "create"
    /\ pressed.form.title # "" /\ pressed.form.description = ""
    /\ view.msg = "error"
    /\ Len(Records(assignments)) > 0

\* C6: in every reachable state every record has a progress_percentage in
\* 0..100 and a status, priority and assigned_to of the enumerations
C6_RecordsValid ==
    \A i \in 1..Len(Records(assignments)) :
        assignments.v[i].ty = "dict" =>
            /\ HasKey(assignments.v[i], "progress_percentage") =>
                  /\ Get(assignments.v[i], "progress_percentage").ty = "int"
                  /\ Get(assignments.v[i], "progress_percentage").n \in 0..100
            /\ HasKey(assignments.v[i], "status") =>
                  Get(assignments.v[i], "status").s \in Range(STATUS_OPTIONS)
            /\ HasKey(assignments.v[i], "priority") =>
                  Get(assignments.v[i], "priority").s \in Range(PRIORITY_LEVELS)
            /\ HasKey(assignments.v[i], "assigned_to") =>
                  Get(assignments.v[i], "assigned_to").s \in Range(CHIEF_ENGINEERS)

\* C6's case: the import of a document has succeeded and its records are
\* the store
C6_DocumentImported ==
    /\ sidebar = "Data imported successfully!"
    /\ Len(Records(assignments)) > 0

C8_OnlySuppliedFieldsChange ==
    [][Updated =>
          /\ \A i \in 1..Len(assignments.v) :
                /\ pressed'.status = pressed'.shown.status =>
                      SameField(assignments.v[i], assignments'.v[i], "status")
                /\ pressed'.progress = pressed'.shown.progress =>
                      SameField(assignments.v[i], assignments'.v[i],
                                "progress_percentage")
                /\ pressed'.hours = pressed'.shown.hours =>
                      SameField(assignments.v[i], assignments'.v[i],
                                "actual_hours")
                /\ \/ Comments(assignments'.v[i]) = Comments(assignments.v[i])
                   \/ /\ pressed'.comment # ""
                      /\ Len(Comments(assignments'.v[i])) =
                            Len(Comments(assignments.v[i])) + 1
                      /\ SubSeq(Comments(assignments'.v[i]), 1,
                                Len(Comments(assignments.v[i]))) =
                            Comments(assignments.v[i])
                      /\ Comments(assignments'.v[i])[Len(Comments(assignments'.v[i]))] =
                            PyDict(<< Item("date", PyStr(strftime(now))),
                                      Item("comment", PyStr(pressed'.comment)) >>)
          /\ pressed'.comment # "" =>
                Cardinality({ i \in 1..Len(assignments.v) :
                    Comments(assignments'.v[i]) # Comments(assignments.v[i]) }) = 1]_vars

\* C8's case: an update that supplied only a new progress was applied
C8_OnlyProgressSupplied ==
    /\ pressed.kind = "update" /\ view.msg = "success"
    /\ pressed.status = pressed.shown.status
    /\ pressed.hours = pressed.shown.hours
    /\ pressed.progress # pressed.shown.progress
    /\ pressed.comment = ""

\* the greatest id of the records
GreatestId(x) ==
    CHOOSE m \in { Get(x.v[i], "id").n : i \in 1..Len(x.v) } :
        \A i \in 1..Len(x.v) : Get(x.v[i], "id").n <= m

\* C9: after every successful import the id counter is the greatest id of
\* the imported records plus 1, or 1 when there are none
C9_CounterAfterImport ==
    sidebar = "Data imported successfully!" =>
        assignment_counter =
            IF Len(Records(assignments)) = 0 THEN 1 ELSE GreatestId(assignments) + 1

\* C9's case: an import of records whose greatest id is neither the last
\* nor their number has succeeded over a counter of another value
C9_ImportedOverCounter ==
    /\ sidebar = "Data imported successfully!"
    /\ uploaded_file = UploadedFile(ValidDoc)
    /\ assignment_counter = 4
    /\ issued = 2

\* the record passes every filter that is set
Passes(a, f) ==
    /\ f.engineer # "All" =>
          HasKey(a, "assigned_to") /\ Get(a, "assigned_to") = PyStr(f.engineer)
    /\ f.status # "All" =>
          HasKey(a, "status") /\ Get(a, "status") = PyStr(f.status)
    /\ f.priority # "All" =>
          HasKey(a, "priority") /\ Get(a, "priority") = PyStr(f.priority)

\* C10: the rows the manage page lists (df at line 274) are exactly the
\* records that pass every filter that is set, in the order of the store:
\* all of them when no filter is set, none when no record has the status
\* asked for
C10_ListingMatchesFilters ==
    (/\ pc = "idle"
     /\ view.page = "Manage Assignments"
     /\ view.msg \in {"", "row exception"}) =>
        view.df = SelectSeq([i \in 1..Len(assignments.v) |-> i - 1],
                            LAMBDA n : Passes(assignments.v[n + 1], filters))

\* C10's case: two filters are set and the listing is the second of two
\* records
C10_SecondRecordListed ==
    /\ pc = "idle" /\ view.page = "Manage Assignments" /\ view.msg = ""
    /\ Len(assignments.v) = 2
    /\ Cardinality({ w \in {"engineer", "status", "priority"} : filters[w] # "All" }) >= 2
    /\ view.df = << 1 >>

\* C11: once a run has imported the uploaded file, a later run gets past
\* the import block to page routing, whatever the user does or leaves
\* undone
C11_ImportReachesRouting ==
    (sidebar = "Data imported successfully!") ~>
        (sidebar # "Data imported successfully!")

\* C11's case: the file is still selected after it was imported twice in a
\* row, and the run that is due imports it again with the same outcome
C11_ImportedAgain ==
    /\ pc = "rerun"
    /\ uploaded_file # NoFile
    /\ sidebar = "Data imported successfully!"
    /\ restarts = 0
    /\ AtRouting(uploaded_file).exc = ""
    /\ AtRouting(uploaded_file).assignments = assignments
    /\ AtRouting(uploaded_file).counter = assignment_counter

====
